---------------------------- MODULE Spec2Model ----------------------------
(***************************************************************************)
(* A model of weight.py: the measurement log is parsed sample by sample    *)
(* (parse_samples), filtered by the cutoff date and handed to the trend    *)
(* computation of main().                                                  *)
(*                                                                         *)
(* Measurement strings are sequences of one-character strings, so that the *)
(* two regular expressions are computed character by character.  Floats    *)
(* are exact rationals <<numerator, denominator>> in lowest terms; the     *)
(* pair <<0, 0>> is NaN.  Dates are proleptic ordinals (date.toordinal()), *)
(* and None is the ordinal 0, which no date has.                           *)
(***************************************************************************)
EXTENDS Integers, Sequences, FiniteSets, TLC

(***************************************************************************)
(* Bounds.                                                                 *)
(***************************************************************************)
\* longest log drawn from SamplePool
MaxSamples == 3

(***************************************************************************)
(* Characters and strings.                                                 *)
(***************************************************************************)
Digits == {"0", "1", "2", "3", "4", "5", "6", "7", "8", "9"}

LowerLetters == {"a", "b", "c", "e", "f", "g", "h", "i", "k", "l", "m", "n",
                 "o", "s", "t"}

UpperLetters == {"F", "T", "K", "G", "I", "N"}

\* \w of the re module: letters, digits and the underscore
WordChars == Digits \cup LowerLetters \cup UpperLetters \cup {"_"}

\* \s of the re module
SpaceChars == {" "}

\* re.I folds case before comparing
Lower(c) ==
    CASE c = "F" -> "f"
      [] c = "T" -> "t"
      [] c = "K" -> "k"
      [] c = "G" -> "g"
      [] c = "I" -> "i"
      [] c = "N" -> "n"
      [] OTHER -> c

DigitVal(c) ==
    CASE c = "0" -> 0 [] c = "1" -> 1 [] c = "2" -> 2 [] c = "3" -> 3
      [] c = "4" -> 4 [] c = "5" -> 5 [] c = "6" -> 6 [] c = "7" -> 7
      [] c = "8" -> 8 [] c = "9" -> 9

\* the first position >= k of s that holds no character of cs: where a
\* greedy run cs* that starts at k ends
RECURSIVE SpanEnd(_, _, _)
SpanEnd(s, k, cs) ==
    IF k <= Len(s) /\ s[k] \in cs THEN SpanEnd(s, k + 1, cs) ELSE k

\* s[a .. b-1]
Slice(s, a, b) == SubSeq(s, a, b - 1)

\* whether the literal lit stands at position k of s, case folded
LiteralAt(s, k, lit) ==
    /\ k + Len(lit) - 1 <= Len(s)
    /\ \A j \in 1..Len(lit) : Lower(s[k + j - 1]) = lit[j]

(***************************************************************************)
(* Floats as exact rationals.                                              *)
(***************************************************************************)
Abs(a) == IF a < 0 THEN -a ELSE a

RECURSIVE GCD(_, _)
GCD(a, b) == IF b = 0 THEN a ELSE GCD(b, a % b)

NaN == <<0, 0>>

IsNaN(r) == r[2] = 0

\* n/d in lowest terms, d > 0
Rat(n, d) ==
    IF d = 0 THEN NaN
    ELSE LET g == GCD(Abs(n), Abs(d))
             s == IF d < 0 THEN -1 ELSE 1
         IN  <<(s * n) \div g, (s * d) \div g>>

RInt(n) == <<n, 1>>

RAdd(a, b) ==
    IF IsNaN(a) \/ IsNaN(b) THEN NaN
    ELSE Rat(a[1] * b[2] + b[1] * a[2], a[2] * b[2])

RSub(a, b) ==
    IF IsNaN(a) \/ IsNaN(b) THEN NaN
    ELSE Rat(a[1] * b[2] - b[1] * a[2], a[2] * b[2])

RMul(a, b) ==
    IF IsNaN(a) \/ IsNaN(b) THEN NaN
    ELSE Rat(a[1] * b[1], a[2] * b[2])

\* numpy's true division: x/0 is inf or nan with a warning, no exception.
\* The only quotient by zero of the program is the slope over two equal
\* abscissae, which is then multiplied by zero: nan in both cases.
RDiv(a, b) ==
    IF IsNaN(a) \/ IsNaN(b) \/ b[1] = 0 THEN NaN
    ELSE Rat(a[1] * b[2], a[2] * b[1])

\* IEEE equality: NaN equals nothing, itself included
FEq(a, b) == ~IsNaN(a) /\ ~IsNaN(b) /\ a = b

RECURSIVE Pow10(_)
Pow10(k) == IF k = 0 THEN 1 ELSE 10 * Pow10(k - 1)

RECURSIVE StrToNat(_)
StrToNat(s) ==
    IF s = <<>> THEN 0
    ELSE 10 * StrToNat(SubSeq(s, 1, Len(s) - 1)) + DigitVal(s[Len(s)])

\* float(s) for a string of digits with at most one point
float(s) ==
    LET p    == SpanEnd(s, 1, Digits)
        frac == IF p <= Len(s) THEN SubSeq(s, p + 1, Len(s)) ELSE <<>>
    IN  Rat(StrToNat(Slice(s, 1, p)) * Pow10(Len(frac)) + StrToNat(frac),
            Pow10(Len(frac)))


(***************************************************************************)
(* The two extractors.  A match is [matched, groups]; a failed match is    *)
(* NoMatch, which parse_unit and parse_feet_inches turn into ValueError.   *)
(***************************************************************************)
NoMatch == [matched |-> FALSE, groups |-> <<>>]

\* where the number (\d+(?:\.\d*)?|\.\d+) that starts at position 1 ends,
\* 0 when no number starts there.  Every quantifier is greedy and what
\* follows the number, \s*(\w*), matches anything, so the first alternative
\* that matches is kept whole.
NumberEnd(rec) ==
    LET d1 == SpanEnd(rec, 1, Digits) IN
    IF d1 > 1
    THEN IF d1 <= Len(rec) /\ rec[d1] = "."
         THEN SpanEnd(rec, d1 + 1, Digits)
         ELSE d1
    ELSE IF Len(rec) >= 1 /\ rec[1] = "." /\ SpanEnd(rec, 2, Digits) > 2
         THEN SpanEnd(rec, 2, Digits)
         ELSE 0

\* UNIT_PATTERN.match(rec)
UNIT_PATTERN(rec) ==
    LET e  == NumberEnd(rec)
        sp == SpanEnd(rec, e, SpaceChars)
        w  == SpanEnd(rec, sp, WordChars)
    IN  IF e = 0 THEN NoMatch
        ELSE [matched |-> TRUE,
              groups  |-> <<Slice(rec, 1, e), Slice(rec, sp, w)>>]

\* the alternatives of (?:f|ft|foot|feet), in the order the engine tries them
FootWords == << <<"f">>, <<"f", "t">>, <<"f", "o", "o", "t">>,
                <<"f", "e", "e", "t">> >>

\* FT_IN_PATTERN.match(rec): the first foot word after which \s*(\d+) matches
FT_IN_PATTERN(rec) ==
    LET d1 == SpanEnd(rec, 1, Digits)
        sp == SpanEnd(rec, d1, SpaceChars)
        InchStart(a) == SpanEnd(rec, sp + Len(FootWords[a]), SpaceChars)
        Fits(a) == /\ LiteralAt(rec, sp, FootWords[a])
                   /\ SpanEnd(rec, InchStart(a), Digits) > InchStart(a)
        fit == {a \in 1..Len(FootWords) : Fits(a)}
    IN  IF d1 = 1 \/ fit = {} THEN NoMatch
        ELSE LET a == CHOOSE x \in fit : \A y \in fit : x <= y
                 q == InchStart(a)
             IN  [matched |-> TRUE,
                  groups  |-> <<Slice(rec, 1, d1),
                                Slice(rec, q, SpanEnd(rec, q, Digits))>>]

parse_unit(rec) == UNIT_PATTERN(rec)

parse_feet_inches(rec) == FT_IN_PATTERN(rec)

(***************************************************************************)
(* Dates.  dateparser.parse gives a datetime at midnight for a date it     *)
(* reads and None for a string it cannot read; it raises nothing.          *)
(***************************************************************************)
None == 0

dateparser_parse(s) ==
    CASE s = "23 May 1995" -> 728436
      [] s = "24 May 1995" -> 728437
      [] s = "25 May 1995" -> 728438
      [] s = "26 May 1995" -> 728439
      [] s = "28 May 1995" -> 728441
      [] s = "13 Jun 1996" -> 728823
      [] OTHER -> None

(***************************************************************************)
(* The body of the loop of parse_samples, in its three stages.  A stage    *)
(* returns how control leaves it (ctl): "ok" falls through to the next     *)
(* stage, "continue" skips the sample, "raise" leaves parse_samples with   *)
(* the exception err.                                                      *)
(***************************************************************************)
Msg(level, text, arg) == [level |-> level, text |-> text, arg |-> arg]

Step(ctl, value, out, err) ==
    [ctl |-> ctl, value |-> value, out |-> out, err |-> err]

\* the try statement over the weight: a str times a float is a TypeError,
\* which the except clause does not name
normalize_weight(weightStr) ==
    LET m == parse_unit(weightStr) IN
    IF ~m.matched
    THEN Step("continue", <<>>,
              <<Msg("error", "bad weight record", weightStr)>>, "")
    ELSE IF m.groups[2] = <<"k", "g">>
         THEN Step("raise", <<>>, <<>>, "TypeError")
         ELSE Step("ok", m.groups[1],
                   <<Msg("warning", "bad weight unit, expected kg or lb", <<>>)>>,
                   "")

\* the try statement over the height; ft and inc are strings too
normalize_height(heightStr, weightStr) ==
    LET m == parse_unit(heightStr) IN
    IF m.matched
    THEN Step("ok", m.groups[1],
              IF m.groups[2] # <<"c", "m">>
              THEN <<Msg("warning", "bad height unit, expected cm or in", <<>>)>>
              ELSE <<>>,
              "")
    ELSE IF parse_feet_inches(heightStr).matched
         THEN Step("raise", <<>>, <<>>, "TypeError")
         ELSE Step("continue", <<>>,
                   <<Msg("error", "bad height record", weightStr)>>, "")

\* floor of n/d, d > 0
int_floor(n, d) == n \div d

\* int(n/d), d > 0: Python's int() drops the fraction, towards zero
int_trunc(n, d) == IF n >= 0 THEN n \div d ELSE -((-n) \div d)

\* int(age * 10) for a difference of whole days: days*24*3600 seconds over
\* 365.2425*24*3600, times ten
age_tenths(days) == int_trunc(days * 100000, 3652425)

Datum(date, age, weight, height, bmi) ==
    [date |-> date, age |-> age, weight |-> weight, height |-> height,
     bmi |-> bmi]

\* the rest of the body: None minus a datetime, and a datetime minus None,
\* are TypeErrors; float division by 0.0 is a ZeroDivisionError
build_datum(d, birth, weight, height) ==
    IF d = None \/ birth = None
    THEN Step("raise", <<>>, <<>>, "TypeError")
    ELSE LET w == float(weight)
             h == float(height)
             m == RDiv(h, RInt(100))
         IN  IF h[1] = 0
             THEN Step("raise", <<>>, <<>>, "ZeroDivisionError")
             ELSE Step("ok",
                       Datum(d, Rat(age_tenths(d - birth), 10), w, h,
                             RDiv(w, RMul(m, m))),
                       <<>>, "")


\* one pass of the loop of parse_samples over a sample, from print(sample)
\* to data.append: ctl "ok" appends value, "continue" skips, "raise" aborts
LoopBody(sample, birth) ==
    LET d  == dateparser_parse(sample.date)
        p  == <<Msg("info", "sample", sample)>>
        sw == normalize_weight(sample.weight)
        sh == normalize_height(sample.height, sample.weight)
        sb == build_datum(d, birth, sw.value, sh.value)
    IN  IF sw.ctl # "ok" THEN Step(sw.ctl, <<>>, p \o sw.out, sw.err)
        ELSE IF sh.ctl # "ok"
             THEN Step(sh.ctl, <<>>, p \o sw.out \o sh.out, sh.err)
             ELSE Step(sb.ctl, sb.value, p \o sw.out \o sh.out, sb.err)

(***************************************************************************)
(* main(): the cutoff and the trend series.                                *)
(***************************************************************************)
\* str.lower() of the command words the model passes
lower(s) == IF s = "AFTER" THEN "after" ELSE s

\* ' '.join(words) for at most one word
join(words) == IF words = <<>> THEN "" ELSE words[1]

\* the cutoff: dob, or the date after the word "after"
cutoff(argv, birth) ==
    IF Len(argv) > 1 /\ lower(argv[2]) = "after"
    THEN dateparser_parse(join(SubSeq(argv, 3, Len(argv))))
    ELSE birth

\* a wrong cutoff filter: the kept records come out sorted by date
filter_after_sorted(records, cut) ==
    LET kept == SelectSeq(records, LAMBDA x : x.date >= cut)
        rank(k) == 1 + Cardinality({j \in 1..Len(kept) :
                          \/ kept[j].date < kept[k].date
                          \/ kept[j].date = kept[k].date /\ j < k})
    IN  [q \in 1..Len(kept) |->
            kept[CHOOSE k \in 1..Len(kept) : rank(k) = q]]

\* list(filter(lambda datum: datum.date >= after, data))
filter_after(records, cut) == SelectSeq(records, LAMBDA x : x.date >= cut)

SeqMin(xs) == CHOOSE v \in {xs[k] : k \in 1..Len(xs)} :
                  \A k \in 1..Len(xs) : v <= xs[k]

SeqMax(xs) == CHOOSE v \in {xs[k] : k \in 1..Len(xs)} :
                  \A k \in 1..Len(xs) : v >= xs[k]

\* list(range(a, b)): a, a+1 .. b-1
range(a, b) == [k \in 1..(IF b > a THEN b - a ELSE 0) |-> a + k - 1]

\* a dense range that stops one day short
fine_days_short(ords) == range(SeqMin(ords), SeqMax(ords))

\* fine = list(range(min(ords), max(ords)+1, 1))
fine_days(ords) == range(SeqMin(ords), SeqMax(ords) + 1)

\* numpy.clip: minimum(maximum(v, lo), hi)
clip(v, lo, hi) ==
    LET m == IF v < lo THEN lo ELSE v IN IF m > hi THEN hi ELSE m

\* interp1d sorts its points by x with a stable sort (mergesort): the
\* permutation that sorts xs, equal abscissae kept in their order
argsort(xs) ==
    LET rank(k) == 1 + Cardinality({j \in 1..Len(xs) :
                          xs[j] < xs[k] \/ (xs[j] = xs[k] /\ j < k)})
    IN  [q \in 1..Len(xs) |-> CHOOSE k \in 1..Len(xs) : rank(k) = q]

\* interp1d's linear evaluation of one point over the sorted points (x, y),
\* two at least: searchsorted (side left), clipped to 1 .. n-1, then the
\* chord through the points lo and hi.  Two equal abscissae there divide by
\* zero.
interp_call(x, y, xnew) ==
    LET cnt   == Cardinality({j \in 1..Len(x) : x[j] < xnew})
        hi0   == clip(cnt, 1, Len(x) - 1)
        lo    == hi0
        hi    == hi0 + 1
        slope == RDiv(RSub(y[hi], y[lo]), RInt(x[hi] - x[lo]))
    IN  RAdd(RMul(slope, RInt(xnew - x[lo])), y[lo])

\* interp(ords, values, kind="linear", fill_value="extrapolate")(days)
interp(ords, values, days) ==
    LET perm == argsort(ords)
        x    == [k \in 1..Len(ords) |-> ords[perm[k]]]
        y    == [k \in 1..Len(ords) |-> values[perm[k]]]
    IN  [k \in 1..Len(days) |-> interp_call(x, y, days[k])]

\* np.diff
np_diff(s) == [k \in 1..(Len(s) - 1) |-> RSub(s[k + 1], s[k])]

\* a weight-delta series without the appended last difference
weight_delta_short(series) ==
    LET d == np_diff(series)
    IN  [k \in 1..Len(d) |-> RMul(RInt(-100), d[k])]

\* dws = -np.append(np.diff(ws), np.diff(ws)[-1]) * 100, for a series of two
\* values at least
weight_delta(series) ==
    LET d == np_diff(series)
        a == Append(d, d[Len(d)])
    IN  [k \in 1..Len(a) |-> RMul(RInt(-100), a[k])]

\* bms = ws / ((hs/100) ** 2)
bmi_series(weights, heights) ==
    [k \in 1..Len(weights) |->
        LET m == RDiv(heights[k], RInt(100))
        IN  RDiv(weights[k], RMul(m, m))]


(***************************************************************************)
(* The inputs: the strings of the log, the samples and the command lines.  *)
(***************************************************************************)
\* "70 kg"
W_70kg == <<"7", "0", " ", "k", "g">>

\* "70.5kg"
W_70p5kg == <<"7", "0", ".", "5", "k", "g">>

\* ".5 kg"
W_p5kg == <<".", "5", " ", "k", "g">>

\* "70 KG"
W_70KG == <<"7", "0", " ", "K", "G">>

\* "80 lb"
W_80lb == <<"8", "0", " ", "l", "b">>

\* "82 lb"
W_82lb == <<"8", "2", " ", "l", "b">>

\* "81.5 lb"
W_81p5lb == <<"8", "1", ".", "5", " ", "l", "b">>

\* "84 lb"
W_84lb == <<"8", "4", " ", "l", "b">>

\* "80"
W_80 == <<"8", "0">>

\* "80."
W_80dot == <<"8", "0", ".">>

\* "abc"
W_abc == <<"a", "b", "c">>

\* " 70"
W_sp70 == <<" ", "7", "0">>

\* ""
W_empty == <<>>

\* "175 cm"
H_175cm == <<"1", "7", "5", " ", "c", "m">>

\* "176 cm"
H_176cm == <<"1", "7", "6", " ", "c", "m">>

\* "174 cm"
H_174cm == <<"1", "7", "4", " ", "c", "m">>

\* "180"
H_180 == <<"1", "8", "0">>

\* "69 in"
H_69in == <<"6", "9", " ", "i", "n">>

\* "5ft11"
H_5ft11 == <<"5", "f", "t", "1", "1">>

\* "5 ft 11 in"
H_5ft11in == <<"5", " ", "f", "t", " ", "1", "1", " ", "i", "n">>

\* "6 Feet 2"
H_6Feet2 == <<"6", " ", "F", "e", "e", "t", " ", "2">>

\* "0 cm"
H_0cm == <<"0", " ", "c", "m">>

\* "tall"
H_tall == <<"t", "a", "l", "l">>

\* "ft 5"
H_ft5 == <<"f", "t", " ", "5">>

WeightStrs == {W_70kg, W_70p5kg, W_p5kg, W_70KG, W_80lb, W_80, W_80dot,
               W_abc, W_sp70, W_empty}

HeightStrs == {H_175cm, H_180, H_69in, H_5ft11, H_5ft11in, H_6Feet2, H_0cm,
               H_tall, H_ft5}

DateStrs == {"23 May 1995", "25 May 1995", "26 May 1995", "28 May 1995",
             "13 Jun 1996", "someday"}

DobStrs == {"24 May 1995", "my birthday"}

Sample(date, weight, height) ==
    [date |-> date, weight |-> weight, height |-> height]

\* every sample over the strings above: the logs of one sample
AllSamples == {Sample(d, w, h) : d \in DateStrs, w \in WeightStrs,
                                 h \in HeightStrs}

\* the samples of the longer logs: four days around the date of birth, one
\* day written twice, and one sample of each kind the loop treats apart
SamplePool ==
    { Sample("25 May 1995", W_80lb,   H_175cm),
      Sample("26 May 1995", W_82lb,   H_176cm),
      Sample("25 May 1995", W_81p5lb, H_5ft11),
      Sample("28 May 1995", W_84lb,   H_180),
      Sample("23 May 1995", W_80,     H_174cm),
      Sample("26 May 1995", W_abc,    H_175cm),
      Sample("25 May 1995", W_80lb,   H_tall),
      Sample("someday",     W_80lb,   H_175cm),
      Sample("26 May 1995", W_70kg,   H_175cm) }

Logs == {<<x>> : x \in AllSamples}
        \cup UNION {[1..n -> SamplePool] : n \in 0..MaxSamples}

\* sys.argv
Argvs == { <<"weight.py">>,
           <<"weight.py", "after">>,
           <<"weight.py", "after", "23 May 1995">>,
           <<"weight.py", "AFTER", "26 May 1995">>,
           <<"weight.py", "after", "someday">>,
           <<"weight.py", "since", "26 May 1995">> }

(***************************************************************************)
(* The state.                                                              *)
(***************************************************************************)
VARIABLES
    root,   \* the document of data.yaml: [DOB, samples]
    pc,     \* where main() is: "load", "parse", "trend", "done", "raised"
    i,      \* the sample the loop of parse_samples is at (from 1)
    dob,    \* the parsed date of birth
    data,   \* the list of Datum
    out,    \* what was printed, line by line
    err,    \* the exception that ended the run, "" when none
    after,  \* the cutoff
    fine,   \* the dense range of ordinal days
    hs,     \* the dense height series
    ws,     \* the dense weight series
    bms,    \* the dense BMI series
    dws     \* the weight-delta series

vars == <<root, pc, i, dob, data, out, err, after, fine, hs, ws, bms, dws>>

series == <<fine, hs, ws, bms, dws>>

Init ==
    /\ root \in [DOB : DobStrs, samples : Logs]
    /\ pc = "load"
    /\ i = 1
    /\ dob = None
    /\ data = <<>>
    /\ out = <<>>
    /\ err = ""
    /\ after = None
    /\ fine = <<>>
    /\ hs = <<>>
    /\ ws = <<>>
    /\ bms = <<>>
    /\ dws = <<>>

\* main() up to the call of parse_samples
Load ==
    /\ pc = "load"
    /\ dob' = dateparser_parse(root.DOB)
    /\ pc' = "parse"
    /\ UNCHANGED <<root, i, data, out, err, after, series>>

\* one pass of the loop of parse_samples
ParseSample ==
    /\ pc = "parse"
    /\ i <= Len(root.samples)
    /\ LET r == LoopBody(root.samples[i], dob) IN
       /\ out' = out \o r.out
       /\ IF r.ctl = "raise"
          THEN /\ pc' = "raised"
               /\ err' = r.err
               /\ UNCHANGED <<i, data>>
          ELSE /\ i' = i + 1
               /\ data' = IF r.ctl = "ok" THEN Append(data, r.value) ELSE data
               /\ UNCHANGED <<pc, err>>
    /\ UNCHANGED <<root, dob, after, series>>

\* the loop is over: parse_samples returns, main() takes the cutoff from the
\* command line and filters.  A datetime compared with None is a TypeError;
\* over an empty list the lambda is never called.
Filter ==
    /\ pc = "parse"
    /\ i > Len(root.samples)
    /\ \E argv \in Argvs :
          LET cut == cutoff(argv, dob) IN
          /\ after' = cut
          /\ IF cut = None /\ data # <<>>
             THEN /\ pc' = "raised"
                  /\ err' = "TypeError"
                  /\ UNCHANGED data
             ELSE /\ pc' = "trend"
                  /\ data' = filter_after(data, cut)
                  /\ UNCHANGED err
    /\ UNCHANGED <<root, i, dob, out, series>>

\* the trend series of main().  max() of no record is a ValueError.  Over
\* one day the dense series has one value, np.diff gives none and dws[-1] is
\* an IndexError; interp1d may already refuse a single point (ValueError).
\* The two polyfit lines and the plot are drawn from these series and change
\* none of them.
Trend ==
    /\ pc = "trend"
    /\ IF data = <<>>
       THEN /\ pc' = "raised"
            /\ err' = "ValueError"
            /\ UNCHANGED series
       ELSE LET ords == [k \in 1..Len(data) |-> data[k].date]
                days == fine_days(ords)
                h    == interp(ords, [k \in 1..Len(data) |-> data[k].height], days)
                w    == interp(ords, [k \in 1..Len(data) |-> data[k].weight], days)
            IN  IF Len(days) < 2
                THEN /\ pc' = "raised"
                     /\ err' \in IF Len(data) = 1
                                 THEN {"ValueError", "IndexError"}
                                 ELSE {"IndexError"}
                     /\ UNCHANGED series
                ELSE /\ pc' = "done"
                     /\ fine' = days
                     /\ hs' = h
                     /\ ws' = w
                     /\ bms' = bmi_series(w, h)
                     /\ dws' = weight_delta(w)
                     /\ UNCHANGED err
    /\ UNCHANGED <<root, i, dob, data, out, after>>

Next == Load \/ ParseSample \/ Filter \/ Trend

Spec == Init /\ [][Next]_vars


(***************************************************************************)
(* The claims.                                                             *)
(***************************************************************************)
\* the loop is about to treat sample i
AtSample == pc = "parse" /\ i <= Len(root.samples)

\* the step appended one Datum and went on to the next sample
Appended == /\ pc' = "parse"
            /\ i' = i + 1
            /\ Len(data') = Len(data) + 1
            /\ SubSeq(data', 1, Len(data)) = data

\* the step dropped the sample and went on to the next one
Dropped == pc' = "parse" /\ err' = "" /\ i' = i + 1 /\ data' = data

\* a string with no number at its start: neither a digit nor a point and a
\* digit
NoLeadingNumber(s) ==
    ~(/\ Len(s) >= 1
      /\ \/ s[1] \in Digits
         \/ s[1] = "." /\ Len(s) >= 2 /\ s[2] \in Digits)

\* the unit word of a measurement string that starts with a number
UnitOf(s) == parse_unit(s).groups[2]

\* the number a measurement string starts with
NumberOf(s) == float(parse_unit(s).groups[1])

\* a height the loop can divide by: a number that is not zero
GoodHeight(s) == ~NoLeadingNumber(s) /\ NumberOf(s)[1] # 0

\* a weight in pounds or with no or another unit
PoundWeight(s) == ~NoLeadingNumber(s) /\ UnitOf(s) # <<"k", "g">>

\* both dates of the step can be read
GoodDates == dob # None /\ dateparser_parse(root.samples[i].date) # None

\* C1: a sample whose weight is "<n> kg", with a well-formed height (and
\* dates that parse), yields a Record whose weight is n, unconverted.
C1_KgWeightKept ==
    [][(/\ AtSample
        /\ GoodDates
        /\ ~NoLeadingNumber(root.samples[i].weight)
        /\ UnitOf(root.samples[i].weight) = <<"k", "g">>
        /\ GoodHeight(root.samples[i].height))
       => /\ Appended
          /\ data'[Len(data')].weight = NumberOf(root.samples[i].weight)]_vars

\* C2: a sample whose weight is "<n> lb" or "<n>" (any unit word but "kg")
\* yields a Record whose weight is n * 0.453592.
C2_PoundsConverted ==
    [][(/\ AtSample
        /\ GoodDates
        /\ PoundWeight(root.samples[i].weight)
        /\ GoodHeight(root.samples[i].height))
       => /\ Appended
          /\ data'[Len(data')].weight =
                RMul(NumberOf(root.samples[i].weight), Rat(453592, 1000000))]_vars

\* C3: a height in feet-inches notation reaches the feet-inches extractor
\* and yields a Record whose height is f*30.48 + i*2.54.
C3_FeetInchesHeight ==
    [][(/\ AtSample
        /\ GoodDates
        /\ PoundWeight(root.samples[i].weight)
        /\ FT_IN_PATTERN(root.samples[i].height).matched)
       => /\ Appended
          /\ data'[Len(data')].height =
                LET g == FT_IN_PATTERN(root.samples[i].height).groups
                IN  Rat(StrToNat(g[1]) * 3048 + StrToNat(g[2]) * 254, 100)]_vars

\* C4: a sample whose weight or height string has no leading number is
\* dropped: the records so far stay as they are, the loop goes on with the
\* next sample and no exception leaves parse_samples.
C4_MalformedDropped ==
    [][(/\ AtSample
        /\ \/ NoLeadingNumber(root.samples[i].weight)
           \/ NoLeadingNumber(root.samples[i].height))
       => Dropped]_vars

\* C5: a sample whose date cannot be parsed is discarded and the loop goes
\* on with the next sample (here: a sample whose weight and height are
\* well-formed, under a date of birth that parses).
C5_BadDateDiscarded ==
    [][(/\ AtSample
        /\ dob # None
        /\ dateparser_parse(root.samples[i].date) = None
        /\ PoundWeight(root.samples[i].weight)
        /\ GoodHeight(root.samples[i].height))
       => Dropped]_vars

\* records in ascending date order
DateSorted(records) ==
    \A k \in 1..(Len(records) - 1) : records[k].date <= records[k + 1].date

\* record r holds the date, weight and height of sample x
RecordOf(r, x) ==
    /\ r.date = dateparser_parse(x.date)
    /\ ~NoLeadingNumber(x.weight) /\ r.weight = NumberOf(x.weight)
    /\ ~NoLeadingNumber(x.height) /\ r.height = NumberOf(x.height)

\* the records are those of some of the samples, in the order of the log
InLogOrder ==
    \E f \in [1..Len(data) -> 1..Len(root.samples)] :
        /\ \A k \in 1..(Len(data) - 1) : f[k] < f[k + 1]
        /\ \A k \in 1..Len(data) : RecordOf(data[k], root.samples[f[k]])

\* the log is written in ascending date order
LogSorted ==
    \A j, k \in 1..Len(root.samples) :
        j < k => dateparser_parse(root.samples[j].date)
                   <= dateparser_parse(root.samples[k].date)

\* C6 as stated: the Record sequence handed to the trend computation is in
\* ascending date order and in log order, for every log.
C6_SortedAndLogOrder ==
    pc = "trend" => DateSorted(data) /\ InLogOrder

\* C6 amended: the Record sequence handed to the trend computation is in log
\* order (a subsequence of the samples, never re-sorted); it is in ascending
\* date order when the log is written in date order.
C6_LogOrder ==
    pc = "trend" => InLogOrder /\ (LogSorted => DateSorted(data))

\* a log written out of date order reached the trend computation
C6_Witness ==
    pc = "trend" /\ Len(data) >= 2 /\ ~DateSorted(data)

\* the days the records fall on
RecordDays == {data[k].date : k \in 1..Len(data)}

\* the weight-delta series is there, as long as the dense weight series, its
\* last element the same as the one before it
DeltaProduced ==
    /\ pc' = "done"
    /\ Len(dws') = Len(ws')
    /\ Len(dws') >= 2
    /\ dws'[Len(dws')] = dws'[Len(dws') - 1]

\* C7 as stated: for every non-empty Record sequence that reaches the trend
\* computation, records of a single day included, the weight-delta series
\* is produced, as long as the dense weight series, its last two elements
\* the same.
C7_DeltaAlways ==
    [][(pc = "trend" /\ data # <<>>) => DeltaProduced]_vars

\* C7 amended: for every Record sequence that reaches the trend computation
\* and spans two distinct days at least, the weight-delta series is
\* produced, as long as the dense weight series, its last element a copy of
\* the one before it.
C7_DeltaOverTwoDays ==
    [][(pc = "trend" /\ Cardinality(RecordDays) >= 2) => DeltaProduced]_vars

\* a weight-delta series of numbers was produced
C7_Witness ==
    pc = "done" /\ Len(dws) >= 2 /\ ~IsNaN(dws[Len(dws)])

\* the place of record k's day in the dense series
DayIndex(k) == data[k].date - SeqMin([j \in 1..Len(data) |-> data[j].date]) + 1

DenseLength ==
    LET ords == [j \in 1..Len(data) |-> data[j].date]
    IN  /\ Len(hs) = SeqMax(ords) - SeqMin(ords) + 1
        /\ Len(ws) = SeqMax(ords) - SeqMin(ords) + 1

\* the dense series hold record k's height and weight on its day
DenseHolds(k) ==
    /\ FEq(hs[DayIndex(k)], data[k].height)
    /\ FEq(ws[DayIndex(k)], data[k].weight)

\* no other record falls on the day of record k
AloneOnDay(k) == \A j \in 1..Len(data) : data[j].date = data[k].date => j = k

\* C8 as stated: the dense height and weight series have max_ordinal -
\* min_ordinal + 1 values, and hold every Record's height and weight on
\* that Record's day, also when two Records share a date.
C8_DenseHoldsAll ==
    pc = "done" => DenseLength /\ \A k \in 1..Len(data) : DenseHolds(k)

\* C8 amended: the dense height and weight series have max_ordinal -
\* min_ordinal + 1 values, and hold the height and weight of every Record
\* whose date no other Record shares, on that Record's day.
C8_DenseHoldsAlone ==
    pc = "done" =>
        DenseLength /\ \A k \in 1..Len(data) : AloneOnDay(k) => DenseHolds(k)

\* series over records of which two share a day and one is alone on its day
C8_Witness ==
    /\ pc = "done"
    /\ \E j, k \in 1..Len(data) : j # k /\ data[j].date = data[k].date
    /\ \E k \in 1..Len(data) : AloneOnDay(k)

\* tenths of a year in a number of days, rounded down
FloorTenths(days) == (days * 100000) \div 3652425

\* tenths of a year in a number of days, the fraction dropped
TruncTenths(days) ==
    IF days >= 0 THEN FloorTenths(days) ELSE -FloorTenths(-days)

\* C9 as stated: age_years of every Record is the floor of the age in tenths
\* of a year, over ten, also for dates before the date of birth.
C9_AgeFloored ==
    \A k \in 1..Len(data) :
        data[k].age = Rat(FloorTenths(data[k].date - dob), 10)

\* C9 amended: age_years of every Record is the age in tenths of a year with
\* the fraction dropped (towards zero), over ten: the floor for dates on or
\* after the date of birth, the ceiling for dates before it.
C9_AgeTruncated ==
    \A k \in 1..Len(data) :
        data[k].age = Rat(TruncTenths(data[k].date - dob), 10)

\* a record dated before the date of birth
C9_Witness ==
    \E k \in 1..Len(data) : data[k].date < dob

\* what the step printed
Printed == SubSeq(out', Len(out) + 1, Len(out'))

\* C10: every discard of a sample prints exactly one error line, which names
\* the offending string: the weight when the weight is malformed, the height
\* when the height is.
C10_ErrorNamesValue ==
    [][(AtSample /\ Dropped)
       => LET errs == {k \in 1..Len(Printed) : Printed[k].level = "error"}
          IN  /\ Cardinality(errs) = 1
              /\ \A k \in errs :
                    Printed[k].arg =
                        IF NoLeadingNumber(root.samples[i].weight)
                        THEN root.samples[i].weight
                        ELSE root.samples[i].height]_vars

=============================================================================
